---- MODULE Spec2Model ----
(***************************************************************************)
(* Model of the ticket spinlock `LockCell` (shared/lockcell/src/lib.rs).   *)
(*                                                                         *)
(* Every atomic memory operation of lock_int() and of the guard's drop()   *)
(* is one action, so that the cores interleave at the granularity of the   *)
(* SeqCst operations of the source.  The calls into the InterruptState     *)
(* trait (in_interrupt, in_exception, core_id, enter_lock, exit_lock) act  *)
(* on core-local state only.  A panic!/assert! halts the calling core: it  *)
(* takes no further step and the guards it holds are never dropped.        *)
(***************************************************************************)
EXTENDS Naturals, Integers, Sequences, FiniteSets, TLC

\* ---------------------------------------------------------------- bounds
\* Width in bits of the modelled AtomicU32 counters.
CounterBits == 3

\* Total number of lock()/try_lock() calls made in one behaviour.
MaxCalls == 3

\* ------------------------------------------------------------- constants
Modulus == 2 ^ CounterBits

\* The cores of the machine; core_id() of core c is c.
Cores == {0, 1, 2}

\* The cells of the system.
Cells == {"cell1", "cell2"}

\* Value of cell[c] while core c is in no call.
NoCell == "none"

\* `!0`: the value drop() stores into owner, which core_id() never returns.
Sentinel == Modulus - 1

\* The value new() / new_no_preempt() give to ticket, release and owner.
NewTicket == 0
NewRelease == 0
NewOwner == 0

VARIABLES
    ticket,               \* [Cells -> 0..Modulus-1]   LockCell.ticket
    release,              \* [Cells -> 0..Modulus-1]   LockCell.release
    owner,                \* [Cells -> 0..Modulus-1]   LockCell.owner
    disables_interrupts,  \* [Cells -> BOOLEAN]        LockCell.disables_interrupts
    pc,                   \* [Cores -> position in lock_int() / drop()]
    cell,                 \* [Cores -> Cells \cup {NoCell}] `self` of the call or drop in progress
    try_lock,             \* [Cores -> BOOLEAN] argument of lock_int()
    in_interrupt,         \* [Cores -> BOOLEAN] I::in_interrupt() seen by the call
    in_exception,         \* [Cores -> BOOLEAN] I::in_exception() seen by the call
    current_release,      \* [Cores -> 0..Modulus-1] local of the try branch
    lticket,              \* [Cores -> 0..Modulus-1] local `ticket` of the blocking branch
    guards,               \* [Cores -> SUBSET Cells] guards returned and not yet dropped
    depth,                \* [Cores -> Nat] enter_lock()/exit_lock() nesting counter
    fatal,                \* [Cores -> panic message or "none"]
    queue,                \* history: [Cells -> Seq(Cores)] cores whose ticket is issued
                          \*          and not yet granted, in order of issue
    ncalls,               \* history: number of calls made so far
    val,                  \* [Cells -> Nat] LockCell.val, the payload
    tmp,                  \* [Cores -> Nat] the payload value core c read last
    used,                 \* [Cores -> SUBSET Cells] guards through which the
                          \*          payload has been incremented
    nissued,              \* history: [Cells -> Nat] tickets issued, not wrapped
    nreleased,            \* history: [Cells -> Nat] release increments, not wrapped
    cur_u,                \* history: [Cores -> Nat] nreleased at the load of the try branch
    aba                   \* history: a try_lock() won its exchange on a ticket that
                          \*          matched the loaded release only modulo the width

cellVars  == <<ticket, release, owner, disables_interrupts>>
callVars  == <<cell, try_lock, in_interrupt, in_exception>>
localVars == <<current_release, lticket>>
histVars  == <<queue, ncalls>>
dataVars  == <<val, tmp, used>>
wrapVars  == <<nissued, nreleased, cur_u, aba>>
vars == <<ticket, release, owner, disables_interrupts, pc, cell, try_lock,
          in_interrupt, in_exception, current_release, lticket, guards,
          depth, fatal, queue, ncalls, val, tmp, used, nissued, nreleased,
          cur_u, aba>>

\* ------------------------------------------------------------ pure parts
\* Addition that stops at the largest value instead of wrapping.
WrapAdd_Saturate(a, b) == IF a + b >= Modulus THEN Modulus - 1 ELSE a + b

\* u32 wrapping_add / fetch_add arithmetic.
WrapAdd(a, b) == (a + b) % Modulus

\* I::core_id() of core c.
CoreId(c) == c

\* assert!(self.disables_interrupts || !I::in_interrupt())
AssertInterrupt(di, irq) == di \/ ~irq

\* mutant: the exception check ignores try_lock
AssertException_Strict(try, exc) == ~exc

\* assert!(try_lock || !I::in_exception())
AssertException(try, exc) == try \/ ~exc

\* mutant: the exchange is taken to have succeeded whatever ticket holds
CasWins_Blind(t, cur) == TRUE

\* mutant: the exchange expects the ticket after the loaded release
CasWins_Next(t, cur) == t = (cur + 1) % Modulus

\* compare_and_swap(current_release, ..) != current_release is false
CasWins(t, cur) == t = cur

\* mutant: the spin loop does not wait
IsGranted_Any(rel, t) == TRUE

\* mutant: a request is let through one release early
IsGranted_Early(rel, t) == rel = t \/ WrapAdd(rel, 1) = t

\* the while condition `release.load() != ticket` is false
IsGranted(rel, t) == rel = t

\* mutant: the owner check never fires
IsDeadlock_Never(own, id) == FALSE

\* `owner.load() == core_id`
IsDeadlock(own, id) == own = id

\* mutant: lock_int() forgets enter_lock()
EnterDepth_Forgotten(d, di) == d

\* I::enter_lock() under `if self.disables_interrupts`
EnterDepth(d, di) == IF di THEN d + 1 ELSE d

\* mutant: the guard's drop forgets exit_lock()
ExitDepth_Forgotten(d, di) == d

\* I::exit_lock() under `if self.disables_interrupts`
ExitDepth(d, di) == IF di THEN d - 1 ELSE d

\* ------------------------------------------------------------------ Init
\* LockCell::new(val) (disables_interrupts = false) or
\* LockCell::new_no_preempt(val) (disables_interrupts = true), per cell.
Init ==
    /\ ticket = [x \in Cells |-> NewTicket]
    /\ release = [x \in Cells |-> NewRelease]
    /\ owner = [x \in Cells |-> NewOwner]
    /\ disables_interrupts \in [Cells -> BOOLEAN]
    /\ pc = [c \in Cores |-> "idle"]
    /\ cell = [c \in Cores |-> NoCell]
    /\ try_lock = [c \in Cores |-> FALSE]
    /\ in_interrupt = [c \in Cores |-> FALSE]
    /\ in_exception = [c \in Cores |-> FALSE]
    /\ current_release = [c \in Cores |-> 0]
    /\ lticket = [c \in Cores |-> 0]
    /\ guards = [c \in Cores |-> {}]
    /\ depth = [c \in Cores |-> 0]
    /\ fatal = [c \in Cores |-> "none"]
    /\ queue = [x \in Cells |-> <<>>]
    /\ ncalls = 0
    /\ val = [x \in Cells |-> 0]
    /\ tmp = [c \in Cores |-> 0]
    /\ used = [c \in Cores |-> {}]
    /\ nissued = [x \in Cells |-> 0]
    /\ nreleased = [x \in Cells |-> 0]
    /\ cur_u = [c \in Cores |-> 0]
    /\ aba = FALSE

\* --------------------------------------------------------------- actions
\* The queue without core c.
Without(q, c) == SelectSeq(q, LAMBDA d : d # c)

\* mutant: enter_lock() is called before the two assertions
LockInt_EnterFirst(c, x, try, irq, exc) ==
    /\ pc[c] = "idle"
    /\ ncalls' = ncalls + 1
    /\ cell' = [cell EXCEPT ![c] = x]
    /\ try_lock' = [try_lock EXCEPT ![c] = try]
    /\ in_interrupt' = [in_interrupt EXCEPT ![c] = irq]
    /\ in_exception' = [in_exception EXCEPT ![c] = exc]
    /\ IF ~AssertInterrupt(disables_interrupts[x], irq)
         THEN /\ pc' = [pc EXCEPT ![c] = "panicked"]
              /\ fatal' = [fatal EXCEPT ![c] = "interrupt"]
              /\ depth' = [depth EXCEPT ![c] = EnterDepth(@, disables_interrupts[x])]
         ELSE IF ~AssertException(try, exc)
         THEN /\ pc' = [pc EXCEPT ![c] = "panicked"]
              /\ fatal' = [fatal EXCEPT ![c] = "exception"]
              /\ depth' = [depth EXCEPT ![c] = EnterDepth(@, disables_interrupts[x])]
         ELSE /\ pc' = [pc EXCEPT ![c] = "enter_lock"]
              /\ fatal' = fatal
              /\ depth' = depth
    /\ UNCHANGED <<cellVars, localVars, guards, queue, dataVars, wrapVars>>

\* lock_int(try) is entered on cell x: the two assertions and core_id().
LockInt(c, x, try, irq, exc) ==
    /\ pc[c] = "idle"
    /\ ncalls' = ncalls + 1
    /\ cell' = [cell EXCEPT ![c] = x]
    /\ try_lock' = [try_lock EXCEPT ![c] = try]
    /\ in_interrupt' = [in_interrupt EXCEPT ![c] = irq]
    /\ in_exception' = [in_exception EXCEPT ![c] = exc]
    /\ IF ~AssertInterrupt(disables_interrupts[x], irq)
         THEN /\ pc' = [pc EXCEPT ![c] = "panicked"]
              /\ fatal' = [fatal EXCEPT ![c] = "interrupt"]
         ELSE IF ~AssertException(try, exc)
         THEN /\ pc' = [pc EXCEPT ![c] = "panicked"]
              /\ fatal' = [fatal EXCEPT ![c] = "exception"]
         ELSE /\ pc' = [pc EXCEPT ![c] = "enter_lock"]
              /\ fatal' = fatal
    /\ UNCHANGED <<cellVars, localVars, guards, depth, queue, dataVars, wrapVars>>

\* One of the MaxCalls calls of a behaviour.
Call(c, x, try, irq, exc) == ncalls < MaxCalls /\ LockInt(c, x, try, irq, exc)

\* if self.disables_interrupts { I::enter_lock(); }
EnterLock(c) ==
    /\ pc[c] = "enter_lock"
    /\ depth' = [depth EXCEPT ![c] = EnterDepth(@, disables_interrupts[cell[c]])]
    /\ pc' = [pc EXCEPT ![c] = IF try_lock[c] THEN "try_load" ELSE "take_ticket"]
    /\ in_interrupt' = [in_interrupt EXCEPT ![c] = FALSE]
    /\ in_exception' = [in_exception EXCEPT ![c] = FALSE]
    /\ UNCHANGED <<cellVars, cell, try_lock, localVars, guards, fatal, histVars,
                   dataVars, wrapVars>>

\* mutant: the try branch loads ticket instead of release
TryLoad_Ticket(c) ==
    /\ pc[c] = "try_load"
    /\ current_release' = [current_release EXCEPT ![c] = ticket[cell[c]]]
    /\ pc' = [pc EXCEPT ![c] = "try_cas"]
    /\ cur_u' = [cur_u EXCEPT ![c] = nreleased[cell[c]]]
    /\ UNCHANGED <<cellVars, callVars, lticket, guards, depth, fatal, histVars,
                   dataVars, nissued, nreleased, aba>>

\* let current_release = self.release.load(SeqCst);
TryLoad(c) ==
    /\ pc[c] = "try_load"
    /\ current_release' = [current_release EXCEPT ![c] = release[cell[c]]]
    /\ pc' = [pc EXCEPT ![c] = "try_cas"]
    /\ cur_u' = [cur_u EXCEPT ![c] = nreleased[cell[c]]]
    /\ UNCHANGED <<cellVars, callVars, lticket, guards, depth, fatal, histVars,
                   dataVars, nissued, nreleased, aba>>

\* mutant: a lost exchange has taken a ticket all the same
TryCas_FetchAdd(c) ==
    /\ pc[c] = "try_cas"
    /\ LET x == cell[c] IN
       IF CasWins(ticket[x], current_release[c])
         THEN /\ ticket' = [ticket EXCEPT ![x] = WrapAdd(current_release[c], 1)]
              /\ pc' = [pc EXCEPT ![c] = "store_owner"]
              /\ nissued' = [nissued EXCEPT ![x] = @ + 1]
              /\ aba' = (aba \/ nissued[x] # cur_u[c])
              /\ UNCHANGED <<depth, cell, try_lock>>
         ELSE /\ depth' = [depth EXCEPT ![c] = ExitDepth(@, disables_interrupts[x])]
              /\ pc' = [pc EXCEPT ![c] = "idle"]
              /\ cell' = [cell EXCEPT ![c] = NoCell]
              /\ try_lock' = [try_lock EXCEPT ![c] = FALSE]
              /\ ticket' = [ticket EXCEPT ![x] = WrapAdd(@, 1)]
              /\ UNCHANGED <<nissued, aba>>
    /\ current_release' = [current_release EXCEPT ![c] = 0]
    /\ cur_u' = [cur_u EXCEPT ![c] = 0]
    /\ UNCHANGED <<release, owner, disables_interrupts, in_interrupt,
                   in_exception, lticket, guards, fatal, histVars, dataVars,
                   nreleased>>

\* mutant: a lost exchange loads release again and retries
TryCas_Retry(c) ==
    /\ pc[c] = "try_cas"
    /\ LET x == cell[c] IN
       IF CasWins(ticket[x], current_release[c])
         THEN /\ ticket' = [ticket EXCEPT ![x] = WrapAdd(current_release[c], 1)]
              /\ pc' = [pc EXCEPT ![c] = "store_owner"]
              /\ nissued' = [nissued EXCEPT ![x] = @ + 1]
              /\ aba' = (aba \/ nissued[x] # cur_u[c])
              /\ UNCHANGED <<depth, cell, try_lock>>
         ELSE /\ depth' = [depth EXCEPT ![c] = ExitDepth(@, disables_interrupts[x])]
              /\ pc' = [pc EXCEPT ![c] = "try_load"]
              /\ UNCHANGED <<cell, try_lock, ticket, nissued, aba>>
    /\ current_release' = [current_release EXCEPT ![c] = 0]
    /\ cur_u' = [cur_u EXCEPT ![c] = 0]
    /\ UNCHANGED <<release, owner, disables_interrupts, in_interrupt,
                   in_exception, lticket, guards, fatal, histVars, dataVars,
                   nreleased>>

\* self.ticket.compare_and_swap(current_release, current_release + 1); on
\* failure exit_lock() if needed and return None.
TryCas(c) ==
    /\ pc[c] = "try_cas"
    /\ LET x == cell[c] IN
       IF CasWins(ticket[x], current_release[c])
         THEN /\ ticket' = [ticket EXCEPT ![x] = WrapAdd(current_release[c], 1)]
              /\ pc' = [pc EXCEPT ![c] = "store_owner"]
              /\ nissued' = [nissued EXCEPT ![x] = @ + 1]
              /\ aba' = (aba \/ nissued[x] # cur_u[c])
              /\ UNCHANGED <<depth, cell, try_lock>>
         ELSE /\ depth' = [depth EXCEPT ![c] = ExitDepth(@, disables_interrupts[x])]
              /\ pc' = [pc EXCEPT ![c] = "idle"]
              /\ cell' = [cell EXCEPT ![c] = NoCell]
              /\ try_lock' = [try_lock EXCEPT ![c] = FALSE]
              /\ UNCHANGED <<ticket, nissued, aba>>
    /\ current_release' = [current_release EXCEPT ![c] = 0]
    /\ cur_u' = [cur_u EXCEPT ![c] = 0]
    /\ UNCHANGED <<release, owner, disables_interrupts, in_interrupt,
                   in_exception, lticket, guards, fatal, histVars, dataVars,
                   nreleased>>

\* let ticket = self.ticket.fetch_add(1, SeqCst);
TakeTicket(c) ==
    /\ pc[c] = "take_ticket"
    /\ LET x == cell[c] IN
       /\ lticket' = [lticket EXCEPT ![c] = ticket[x]]
       /\ ticket' = [ticket EXCEPT ![x] = WrapAdd(@, 1)]
       /\ queue' = [queue EXCEPT ![x] = Append(@, c)]
       /\ nissued' = [nissued EXCEPT ![x] = @ + 1]
    /\ pc' = [pc EXCEPT ![c] = "spin_release"]
    /\ UNCHANGED <<release, owner, disables_interrupts, callVars,
                   current_release, guards, depth, fatal, ncalls, dataVars,
                   nreleased, cur_u, aba>>

\* while self.release.load(SeqCst) != ticket
SpinRelease(c) ==
    /\ pc[c] = "spin_release"
    /\ LET x == cell[c] IN
       IF IsGranted(release[x], lticket[c])
         THEN /\ pc' = [pc EXCEPT ![c] = "store_owner"]
              /\ queue' = [queue EXCEPT ![x] = Without(@, c)]
              /\ lticket' = [lticket EXCEPT ![c] = 0]
         ELSE /\ pc' = [pc EXCEPT ![c] = "spin_owner"]
              /\ UNCHANGED <<queue, lticket>>
    /\ UNCHANGED <<cellVars, callVars, current_release, guards, depth, fatal,
                   ncalls, dataVars, wrapVars>>

\* mutant: the deadlock abort gives its ticket back by advancing release
SpinOwner_Unwinds(c) ==
    /\ pc[c] = "spin_owner"
    /\ IF IsDeadlock(owner[cell[c]], CoreId(c))
         THEN /\ pc' = [pc EXCEPT ![c] = "panicked"]
              /\ fatal' = [fatal EXCEPT ![c] = "deadlock"]
              /\ release' = [release EXCEPT ![cell[c]] = WrapAdd(@, 1)]
         ELSE /\ pc' = [pc EXCEPT ![c] = "spin_release"]
              /\ fatal' = fatal
              /\ release' = release
    /\ UNCHANGED <<ticket, owner, disables_interrupts, callVars, localVars,
                   guards, depth, histVars, dataVars, wrapVars>>

\* if self.owner.load(SeqCst) == core_id { panic!("Deadlock detected"); }
SpinOwner(c) ==
    /\ pc[c] = "spin_owner"
    /\ IF IsDeadlock(owner[cell[c]], CoreId(c))
         THEN /\ pc' = [pc EXCEPT ![c] = "panicked"]
              /\ fatal' = [fatal EXCEPT ![c] = "deadlock"]
         ELSE /\ pc' = [pc EXCEPT ![c] = "spin_release"]
              /\ fatal' = fatal
    /\ UNCHANGED <<cellVars, callVars, localVars, guards, depth, histVars,
                   dataVars, wrapVars>>

\* self.owner.store(core_id, SeqCst); Some(LockCellGuard { cell: self })
StoreOwner(c) ==
    /\ pc[c] = "store_owner"
    /\ owner' = [owner EXCEPT ![cell[c]] = CoreId(c)]
    /\ guards' = [guards EXCEPT ![c] = @ \cup {cell[c]}]
    /\ pc' = [pc EXCEPT ![c] = "idle"]
    /\ cell' = [cell EXCEPT ![c] = NoCell]
    /\ try_lock' = [try_lock EXCEPT ![c] = FALSE]
    /\ UNCHANGED <<ticket, release, disables_interrupts, in_interrupt,
                   in_exception, localVars, depth, fatal, histVars, dataVars,
                   wrapVars>>

\* drop(): self.cell.owner.store(!0, SeqCst);
DropOwner(c, x) ==
    /\ pc[c] = "idle"
    /\ x \in guards[c]
    /\ cell' = [cell EXCEPT ![c] = x]
    /\ owner' = [owner EXCEPT ![x] = Sentinel]
    /\ pc' = [pc EXCEPT ![c] = "drop_release"]
    /\ UNCHANGED <<ticket, release, disables_interrupts, try_lock,
                   in_interrupt, in_exception, localVars, guards, depth,
                   fatal, histVars, dataVars, wrapVars>>

\* mutant: the drop advances release by two
DropRelease_Twice(c) ==
    /\ pc[c] = "drop_release"
    /\ release' = [release EXCEPT ![cell[c]] = WrapAdd(@, 2)]
    /\ guards' = [guards EXCEPT ![c] = @ \ {cell[c]}]
    /\ used' = [used EXCEPT ![c] = @ \ {cell[c]}]
    /\ nreleased' = [nreleased EXCEPT ![cell[c]] = @ + 1]
    /\ pc' = [pc EXCEPT ![c] = "drop_exit"]
    /\ UNCHANGED <<ticket, owner, disables_interrupts, callVars, localVars,
                   depth, fatal, histVars, val, tmp, nissued, cur_u, aba>>

\* drop(): self.cell.release.fetch_add(1, SeqCst);
DropRelease(c) ==
    /\ pc[c] = "drop_release"
    /\ release' = [release EXCEPT ![cell[c]] = WrapAdd(@, 1)]
    /\ guards' = [guards EXCEPT ![c] = @ \ {cell[c]}]
    /\ used' = [used EXCEPT ![c] = @ \ {cell[c]}]
    /\ nreleased' = [nreleased EXCEPT ![cell[c]] = @ + 1]
    /\ pc' = [pc EXCEPT ![c] = "drop_exit"]
    /\ UNCHANGED <<ticket, owner, disables_interrupts, callVars, localVars,
                   depth, fatal, histVars, val, tmp, nissued, cur_u, aba>>

\* mutant: the drop clears owner once more after the release increment
DropExit_ClearsOwner(c) ==
    /\ pc[c] = "drop_exit"
    /\ depth' = [depth EXCEPT ![c] = ExitDepth(@, disables_interrupts[cell[c]])]
    /\ owner' = [owner EXCEPT ![cell[c]] = Sentinel]
    /\ pc' = [pc EXCEPT ![c] = "idle"]
    /\ cell' = [cell EXCEPT ![c] = NoCell]
    /\ UNCHANGED <<ticket, release, disables_interrupts, try_lock,
                   in_interrupt, in_exception, localVars, guards, fatal,
                   histVars, dataVars, wrapVars>>

\* drop(): if self.cell.disables_interrupts { I::exit_lock(); }
DropExit(c) ==
    /\ pc[c] = "drop_exit"
    /\ depth' = [depth EXCEPT ![c] = ExitDepth(@, disables_interrupts[cell[c]])]
    /\ pc' = [pc EXCEPT ![c] = "idle"]
    /\ cell' = [cell EXCEPT ![c] = NoCell]
    /\ UNCHANGED <<cellVars, try_lock, in_interrupt, in_exception, localVars,
                   guards, fatal, histVars, dataVars, wrapVars>>

Next ==
    \/ \E c \in Cores, x \in Cells, try \in BOOLEAN, irq \in BOOLEAN, exc \in BOOLEAN :
          Call(c, x, try, irq, exc)
    \/ \E c \in Cores : EnterLock(c)
    \/ \E c \in Cores : TryLoad(c)
    \/ \E c \in Cores : TryCas(c)
    \/ \E c \in Cores : TakeTicket(c)
    \/ \E c \in Cores : SpinRelease(c)
    \/ \E c \in Cores : SpinOwner(c)
    \/ \E c \in Cores : StoreOwner(c)
    \/ \E c \in Cores, x \in Cells : DropOwner(c, x)
    \/ \E c \in Cores : DropRelease(c)
    \/ \E c \in Cores : DropExit(c)

Spec == Init /\ [][Next]_vars

TypeOK ==
    /\ ticket \in [Cells -> 0..(Modulus - 1)]
    /\ release \in [Cells -> 0..(Modulus - 1)]
    /\ owner \in [Cells -> 0..(Modulus - 1)]
    /\ depth \in [Cores -> Nat]
    /\ ncalls \in 0..MaxCalls

\* ------------------------------------------------------ state predicates
\* Core c has been granted cell x and has not yet incremented release:
\* it is about to store owner, or it holds the live guard.
HasLock(c, x) == x \in guards[c] \/ (pc[c] = "store_owner" /\ cell[c] = x)

\* The cores that have been granted cell x and have not released it.
Holders(x) == {c \in Cores : HasLock(c, x)}

\* Core c is inside lock_int() on cell x.
InCall(c, x) ==
    /\ cell[c] = x
    /\ pc[c] \in {"enter_lock", "try_load", "try_cas", "take_ticket",
                  "spin_release", "spin_owner", "store_owner"}

\* C1: mutual exclusion - on every cell at most one core has been granted
\* the lock and not yet completed the release increment of its guard's drop.
C1_MutualExclusion == \A x \in Cells : Cardinality(Holders(x)) <= 1

\* A guard is live on a cell while another core contends for that cell.
C1_Witness ==
    \E x \in Cells, c \in Cores, d \in Cores :
        /\ c # d
        /\ x \in guards[c]
        /\ cell[d] = x
        /\ pc[d] \in {"spin_owner", "try_cas"}

\* C2: FIFO - a blocking request is granted only when it is the oldest
\* request whose ticket is issued and not granted, and when every earlier
\* grant has been released.
C2_FifoGrant ==
    [][\A c \in Cores :
          (pc[c] = "spin_release" /\ pc'[c] = "store_owner") =>
              /\ queue[cell[c]] # <<>>
              /\ Head(queue[cell[c]]) = c
              /\ Holders(cell[c]) = {}]_vars

\* A blocking request that had to spin is granted while a later request is
\* still queued behind it.
C2_Witness ==
    \E x \in Cells, c \in Cores :
        /\ pc[c] = "store_owner"
        /\ cell[c] = x
        /\ ~try_lock[c]
        /\ release[x] # NewRelease
        /\ queue[x] # <<>>

\* Core c, holding the live guard of a cell, is inside lock_int() on that
\* same cell.
SelfReacq(c) ==
    /\ cell[c] \in guards[c]
    /\ pc[c] \in {"enter_lock", "try_load", "try_cas", "take_ticket",
                  "spin_release", "spin_owner", "store_owner"}

\* C4 as claimed: a self-reacquisition attempt, blocking or not, never
\* returns to its caller.
C4_AlwaysFatal ==
    [][\A c \in Cores : SelfReacq(c) => pc'[c] # "idle"]_vars

\* C4 amended: at every step taken during a self-reacquisition, a blocking
\* attempt is not granted, finds its own id in owner in the spin loop and
\* panics there with "Deadlock detected", never returning; a try_lock()
\* attempt loses its exchange and returns None without a guard.
C4_SelfReacquire ==
    [][\A c \in Cores : SelfReacq(c) =>
          /\ pc[c] # "store_owner"
          /\ pc[c] = "spin_release" => release[cell[c]] # lticket[c]
          /\ pc[c] = "spin_owner" => owner[cell[c]] = c
          /\ pc[c] = "try_cas" => ticket[cell[c]] # current_release[c]
          /\ ~try_lock[c] => pc'[c] # "idle"
          /\ pc[c] = "spin_owner" =>
                (pc'[c] # "spin_owner" =>
                    pc'[c] = "panicked" /\ fatal'[c] = "deadlock")
          /\ pc'[c] = "idle" => guards'[c] = guards[c]]_vars

\* The holder of a guard has panicked with "Deadlock detected" in lock() on
\* the cell of that guard.
C4_Witness ==
    \E c \in Cores :
        /\ pc[c] = "panicked"
        /\ fatal[c] = "deadlock"
        /\ cell[c] \in guards[c]

\* The call of core c breaks the context policy.
PolicyViolation(c) ==
    \/ ~disables_interrupts[cell[c]] /\ in_interrupt[c]
    \/ ~try_lock[c] /\ in_exception[c]

\* C5: a call panics on a context assertion exactly when the cell does not
\* disable interrupts and the core is in an interrupt, or the call is the
\* blocking lock() and the core is in an exception.
C5_ContextPolicy ==
    \A c \in Cores :
        /\ pc[c] = "enter_lock" => ~PolicyViolation(c)
        /\ (pc[c] = "panicked" /\ fatal[c] # "deadlock") => PolicyViolation(c)
        /\ fatal[c] = "interrupt" =>
              ~disables_interrupts[cell[c]] /\ in_interrupt[c]
        /\ fatal[c] = "exception" =>
              /\ ~try_lock[c] /\ in_exception[c]
              /\ disables_interrupts[cell[c]] \/ ~in_interrupt[c]

\* A try_lock() on an interrupt-disabling cell passed both assertions inside
\* an interrupt and an exception, while another core panicked on the
\* exception assertion.
C5_Witness ==
    \E c \in Cores, d \in Cores :
        /\ pc[c] = "enter_lock"
        /\ try_lock[c] /\ in_exception[c] /\ in_interrupt[c]
        /\ disables_interrupts[cell[c]]
        /\ fatal[d] = "exception"

\* The nesting counter of every core that is between operations is the
\* number of guards of interrupt-disabling cells the core holds.
DepthMatchesGuards ==
    \A c \in Cores : pc[c] = "idle" =>
        depth[c] = Cardinality({x \in guards[c] : disables_interrupts[x]})

\* C6: before and after every step, the nesting counter of a core that is
\* between operations equals its initial value, zero, plus the number of
\* guards of interrupt-disabling cells it holds; and the release increment
\* of a drop adds exactly one to release of its cell.
C6_DepthRestored ==
    [][/\ DepthMatchesGuards
       /\ DepthMatchesGuards'
       /\ \A c \in Cores :
            (pc[c] = "drop_release" /\ pc'[c] # "drop_release") =>
                /\ release'[cell[c]] = (release[cell[c]] + 1) % Modulus
                /\ \A y \in Cells \ {cell[c]} : release'[y] = release[y]]_vars

\* Two calls were made on two interrupt-disabling cells: the guard of one
\* cell has been acquired and dropped, and a core between operations holds
\* the guard of the other at depth one.
C6_Witness ==
    \E c \in Cores, x \in Cells, y \in Cells :
        /\ pc[c] = "idle"
        /\ guards[c] = {x}
        /\ disables_interrupts[x] /\ disables_interrupts[y]
        /\ release[y] = 1
        /\ ticket[y] = 1
        /\ ncalls = 2
        /\ depth[c] = 1

\* The number of requests that hold a ticket of cell x which is not yet
\* released: spinning, granted, holding the guard, or aborted while spinning.
Outstanding(x) ==
    Cardinality({c \in Cores : x \in guards[c]})
    + Cardinality({c \in Cores :
          /\ cell[c] = x
          /\ \/ pc[c] \in {"spin_release", "spin_owner", "store_owner"}
             \/ pc[c] = "panicked" /\ fatal[c] = "deadlock"})

\* C7: release never exceeds ticket, and ticket - release modulo the counter
\* width is the number of requests holding an unreleased ticket.
C7_ReleaseBehindTicket ==
    \A x \in Cells :
        /\ release[x] <= ticket[x]
        /\ (ticket[x] - release[x]) % Modulus = Outstanding(x)

\* After a release, a holder and a queued request are outstanding.
C7_Witness ==
    \E x \in Cells :
        /\ release[x] >= 1
        /\ ticket[x] = release[x] + 2

\* C8: whenever release equals ticket, owner is the sentinel.
C8_OwnerNoneWhenFree ==
    \A x \in Cells : release[x] = ticket[x] => owner[x] = Sentinel

\* C9: a try_lock() wins its exchange only at an instant where ticket equals
\* release, no core has been granted the cell and no request is queued.
C9_TryOnlyWhenFree ==
    [][\A c \in Cores :
          (pc[c] = "try_cas" /\ pc'[c] = "store_owner") =>
              /\ ticket[cell[c]] = release[cell[c]]
              /\ Holders(cell[c]) = {}
              /\ queue[cell[c]] = <<>>]_vars

\* A try_lock() has won its exchange on a cell that was held and released
\* before.
C9_Witness ==
    \E c \in Cores :
        /\ pc[c] = "store_owner"
        /\ try_lock[c]
        /\ release[cell[c]] >= 1

\* C10: an exchange made while another core holds the live guard returns
\* None; an exchange made while no ticket of the cell is outstanding and
\* release is still the loaded value returns a guard.
C10_TryOutcome ==
    [][\A c \in Cores :
          (pc[c] = "try_cas" /\ pc'[c] # "try_cas") =>
              /\ (\E d \in Cores \ {c} : cell[c] \in guards[d]) =>
                    (pc'[c] = "idle" /\ guards'[c] = guards[c])
              /\ (/\ Holders(cell[c]) = {}
                  /\ queue[cell[c]] = <<>>
                  /\ release[cell[c]] = current_release[c]) =>
                    pc'[c] = "store_owner"]_vars

\* Scenario 2: three calls were made, two tickets of the cell were issued
\* and one released, so one try_lock() has returned None, and now a
\* try_lock() has won its exchange with every other core idle.
C10_Witness ==
    \E c \in Cores :
        /\ pc[c] = "store_owner"
        /\ try_lock[c]
        /\ ncalls = 3
        /\ ticket[cell[c]] = 2
        /\ release[cell[c]] = 1
        /\ \A y \in Cells \ {cell[c]} : ticket[y] = 0
        /\ \A d \in Cores \ {c} : pc[d] = "idle" /\ guards[d] = {}

\* ------------------------------------------------------------- fairness
\* The next instruction of core c inside lock_int() or drop().
Step(c) ==
    \/ EnterLock(c)
    \/ TryLoad(c)
    \/ TryCas(c)
    \/ TakeTicket(c)
    \/ SpinRelease(c)
    \/ SpinOwner(c)
    \/ StoreOwner(c)
    \/ DropRelease(c)
    \/ DropExit(c)

\* Every core that is inside a call keeps executing it.
FairSpec == Spec /\ \A c \in Cores : WF_vars(Step(c))

\* Core c is inside a blocking lock() that passed the assertions and has
\* neither returned its guard nor panicked.
InLock(c) ==
    /\ ~try_lock[c]
    /\ pc[c] \in {"enter_lock", "take_ticket", "spin_release", "spin_owner",
                  "store_owner"}

\* Every granted guard is eventually dropped.
GuardsDropped == \A d \in Cores, x \in Cells : []<>(x \notin guards[d])

\* C3: if every granted guard is eventually dropped then, under fair
\* scheduling of the cores, every blocking lock() that passed the
\* assertions eventually returns a guard or panics.
C3_LockReturns ==
    GuardsDropped => \A c \in Cores : (InLock(c) ~> ~InLock(c))
\* ------------------------------------------------- the payload via guards
\* Deref::deref on the guard of cell x: the critical section reads the value.
GuardRead(c, x) ==
    /\ pc[c] = "idle"
    /\ x \in guards[c]
    /\ x \notin used[c]
    /\ tmp' = [tmp EXCEPT ![c] = val[x]]
    /\ cell' = [cell EXCEPT ![c] = x]
    /\ pc' = [pc EXCEPT ![c] = "cs_write"]
    /\ UNCHANGED <<cellVars, try_lock, in_interrupt, in_exception, localVars,
                   guards, depth, fatal, histVars, val, used, wrapVars>>

\* DerefMut::deref_mut on the guard: the critical section writes value + 1.
GuardWrite(c) ==
    /\ pc[c] = "cs_write"
    /\ val' = [val EXCEPT ![cell[c]] = tmp[c] + 1]
    /\ used' = [used EXCEPT ![c] = @ \cup {cell[c]}]
    /\ tmp' = [tmp EXCEPT ![c] = 0]
    /\ cell' = [cell EXCEPT ![c] = NoCell]
    /\ pc' = [pc EXCEPT ![c] = "idle"]
    /\ UNCHANGED <<cellVars, try_lock, in_interrupt, in_exception, localVars,
                   guards, depth, fatal, histVars, wrapVars>>

\* The guard of cell x goes out of scope after its critical section.
DropUsed(c, x) == x \in used[c] /\ DropOwner(c, x)

\* The lock operations, called outside interrupts and exceptions, with
\* critical sections that each read the payload and write it back
\* incremented before their guard is dropped.
NextVal ==
    \/ \E c \in Cores, x \in Cells, try \in BOOLEAN :
          Call(c, x, try, FALSE, FALSE)
    \/ \E c \in Cores : Step(c)
    \/ \E c \in Cores, x \in Cells : GuardRead(c, x)
    \/ \E c \in Cores : GuardWrite(c)
    \/ \E c \in Cores, x \in Cells : DropUsed(c, x)

SpecVal == Init /\ [][NextVal]_vars

\* C12: the payload is accessed through a guard by one core at a time, the
\* value a holder read is still the stored value when it writes, and the
\* payload equals its initial value, zero, plus the number of critical
\* sections that have incremented it (those completed and those whose
\* guard is still live): no update is lost.
C12_NoLostUpdate ==
    /\ \A x \in Cells :
          /\ Cardinality({c \in Cores : pc[c] = "cs_write" /\ cell[c] = x}) <= 1
          /\ val[x] = nreleased[x] + Cardinality({c \in Cores : x \in used[c]})
    /\ \A c \in Cores : pc[c] = "cs_write" =>
          /\ cell[c] \in guards[c]
          /\ tmp[c] = val[cell[c]]

\* Two critical sections of a cell have completed and a third holder has
\* read the value 2 they left.
C12_Witness ==
    \E c \in Cores :
        /\ pc[c] = "cs_write"
        /\ nreleased[cell[c]] = 2
        /\ tmp[c] = 2

\* --------------------------------------------------- counters that wrap
\* The cell on which the cores contend long enough for ticket to wrap.
WrapCell == CHOOSE x \in Cells : TRUE

\* The lock operations on one cell, outside interrupts and exceptions, with
\* one call more than the counters have values: ticket goes once round.
NextWrap ==
    \/ \E c \in Cores, try \in BOOLEAN :
          ncalls < Modulus + 1 /\ LockInt(c, WrapCell, try, FALSE, FALSE)
    \/ \E c \in Cores : Step(c)
    \/ \E c \in Cores, x \in Cells : DropOwner(c, x)

\* Cells built by LockCell::new(): interrupts play no part in the counters.
InitWrap == Init /\ \A x \in Cells : ~disables_interrupts[x]

SpecWrap == InitWrap /\ [][NextWrap]_vars

TryRank(p) ==
    CASE p = "enter_lock" -> 0
      [] p = "try_load" -> 1
      [] p = "try_cas" -> 2
      [] p = "store_owner" -> 3
      [] OTHER -> 4

\* C11: a try_lock() call can always take its next step, whatever the other
\* cores hold, and each of its steps moves it strictly forward through
\* enter_lock, the load of release, the exchange on ticket, the store of
\* owner and the return: at most one of each, no loop.
C11_TryBounded ==
    [][\A c \in Cores : (try_lock[c] /\ pc[c] # "panicked") =>
          /\ ENABLED Step(c)
          /\ pc'[c] # pc[c] =>
                /\ pc'[c] \in {"try_load", "try_cas", "store_owner", "idle"}
                /\ TryRank(pc'[c]) > TryRank(pc[c])]_vars

\* Three calls were made and only one ticket was issued, which is still
\* held: two try_lock() calls have returned None while the guard was held.
C11_Witness ==
    \E x \in Cells, d \in Cores :
        /\ x \in guards[d]
        /\ ticket[x] = 1
        /\ release[x] = 0
        /\ ncalls = 3
        /\ \A y \in Cells \ {x} : ticket[y] = 0
        /\ \A c \in Cores : pc[c] = "idle"

\* Core c has issued its ticket operation on cell x, or is about to, and its
\* guard's drop has not yet reached its end.
InCritical(c, x) ==
    \/ x \in guards[c]
    \/ /\ cell[c] = x
       /\ pc[c] \in {"try_load", "try_cas", "take_ticket", "spin_release",
                     "spin_owner", "store_owner", "drop_release", "drop_exit"}

\* The nesting depth of a core is at least 1 in every phase of an
\* acquisition and critical section on an interrupt-disabling cell.
InterruptsOff ==
    \A c \in Cores, x \in Cells :
        (disables_interrupts[x] /\ InCritical(c, x)) => depth[c] >= 1

\* C14: for a cell built with new_no_preempt, the nesting depth of a core
\* is at least 1 from before its ticket operation until after the release
\* increment of its drop; ticket changes only in a step of a core that has
\* already entered, and the depth goes down only in the last step of a drop
\* or of a failed try_lock().
C14_InterruptsDisabled ==
    [][/\ InterruptsOff
       /\ InterruptsOff'
       /\ \A x \in Cells : ticket'[x] # ticket[x] =>
             \E c \in Cores :
                 /\ cell[c] = x
                 /\ pc[c] \in {"try_cas", "take_ticket"}
                 /\ disables_interrupts[x] => depth[c] >= 1
       /\ \A c \in Cores : depth'[c] < depth[c] =>
             /\ pc[c] \in {"drop_exit", "try_cas"}
             /\ pc'[c] = "idle"
             /\ release'[cell[c]] = release[cell[c]]]_vars

\* The drop of the only guard of a core, on an interrupt-disabling cell, has
\* incremented release and has not yet called exit_lock().
C14_Witness ==
    \E c \in Cores :
        /\ pc[c] = "drop_exit"
        /\ disables_interrupts[cell[c]]
        /\ guards[c] = {}
        /\ release[cell[c]] = 1
        /\ depth[c] = 1

\* Core c takes a step of a try_lock() call that does not win the exchange.
TryStepNoWin(c) ==
    /\ pc'[c] # pc[c]
    /\ \/ pc[c] = "idle" /\ try_lock'[c]
       \/ pc[c] \in {"enter_lock", "try_load", "try_cas"} /\ try_lock[c]
    /\ pc'[c] # "store_owner"

\* C15: no step of a try_lock() call that ends without a guard changes
\* ticket, release, owner, the payload, the guards or the queue of spinning
\* requests, and when the call returns None the nesting depth of its core
\* is the number of interrupt-disabling guards the core holds, as it was
\* before the call.
C15_FailedTryNoEffect ==
    [][\A c \in Cores : TryStepNoWin(c) =>
          /\ ticket' = ticket
          /\ release' = release
          /\ owner' = owner
          /\ val' = val
          /\ guards' = guards
          /\ queue' = queue
          /\ (pc[c] = "try_cas" /\ pc'[c] = "idle") =>
                /\ depth'[c] =
                      Cardinality({x \in guards[c] : disables_interrupts[x]})
                /\ depth'[c] = depth[c] - (IF disables_interrupts[cell[c]]
                                             THEN 1 ELSE 0)]_vars

\* A try_lock() on an interrupt-disabling cell has just lost its exchange to
\* a request that spins behind the holder of the cell.
C15_Witness ==
    \E x \in Cells, d \in Cores :
        /\ disables_interrupts[x]
        /\ x \in guards[d]
        /\ queue[x] # <<>>
        /\ ticket[x] = 2
        /\ release[x] = 0
        /\ ncalls = 3
        /\ \A y \in Cells \ {x} : ticket[y] = 0
        /\ \A c \in Cores : pc[c] \in {"idle", "spin_release", "spin_owner"}
        /\ \E c \in Cores \ {d} : pc[c] = "idle" /\ depth[c] = 0

\* C16: a core that has panicked with "Deadlock detected" in lock() on a
\* cell holds a live guard of that cell.
C16_DeadlockOnlyWhenHeld ==
    \A c \in Cores :
        (pc[c] = "panicked" /\ fatal[c] = "deadlock") => cell[c] \in guards[c]

\* The guard of core c on cell x is live: the acquisition has returned and
\* the drop has not begun.
LiveGuard(c, x) == x \in guards[c] /\ ~(pc[c] = "drop_release" /\ cell[c] = x)

\* owner of a cell with a live guard is the id of the guard's core.
OwnerIsHolder ==
    \A c \in Cores, x \in Cells : LiveGuard(c, x) => owner[x] = CoreId(c)

\* C17: before and after every step owner of a cell with a live guard is
\* the id of the core holding it; a step that changes owner of a cell is
\* either the store of its own id by the one core granted the cell, or the
\* first step of the holder's drop, which stores the sentinel and leaves
\* release as it is, so that no other core has been granted yet.
C17_OwnerTracksHolder ==
    [][/\ OwnerIsHolder
       /\ OwnerIsHolder'
       /\ \A x \in Cells : owner'[x] # owner[x] =>
             \E c \in Cores :
                 \/ /\ pc[c] = "store_owner"
                    /\ cell[c] = x
                    /\ Holders(x) = {c}
                    /\ owner'[x] = CoreId(c)
                    /\ LiveGuard(c, x)'
                 \/ /\ LiveGuard(c, x)
                    /\ pc'[c] = "drop_release"
                    /\ owner'[x] = Sentinel
                    /\ release'[x] = release[x]
                    /\ Holders(x)' = {c}]_vars

\* A second core holds the cell after the first holder's drop, with a
\* request spinning behind it, and owner is its id.
C17_Witness ==
    \E c \in Cores, x \in Cells :
        /\ LiveGuard(c, x)
        /\ release[x] = 1
        /\ ticket[x] = 3
        /\ owner[x] = CoreId(c)
        /\ CoreId(c) # NewOwner

\* C18: the step in which a call ends on the interrupt-context or the
\* exception-context assertion leaves ticket, release and owner of every
\* cell, the nesting depth of every core, the guards and the queue of
\* spinning requests as they were, and no other core moves in it.
C18_PolicyAbortNoEffect ==
    [][\A c \in Cores :
          (pc'[c] = "panicked" /\ fatal'[c] \in {"interrupt", "exception"}
             /\ pc[c] # "panicked") =>
              /\ pc[c] = "idle"
              /\ ticket' = ticket
              /\ release' = release
              /\ owner' = owner
              /\ depth' = depth
              /\ guards' = guards
              /\ queue' = queue
              /\ val' = val
              /\ \A d \in Cores \ {c} : pc'[d] = pc[d]]_vars

\* A blocking lock() on an interrupt-disabling cell has ended on the
\* exception assertion while another core holds the cell and a third core
\* spins for it.
C18_Witness ==
    \E c \in Cores, d \in Cores :
        /\ d # c
        /\ pc[c] = "panicked"
        /\ fatal[c] = "exception"
        /\ disables_interrupts[cell[c]]
        /\ depth[c] = 0
        /\ cell[c] \in guards[d]
        /\ queue[cell[c]] # <<>>
        /\ ticket[cell[c]] = 2

\* ------------------------------------------------ the payload via shatter
\* The values stored through the reference that shatter() returns.
RawValues == {10, 20}

\* pub unsafe fn shatter(&self) -> &mut T { &mut *self.val.get() }
Shatter(c, x) ==
    /\ pc[c] = "idle"
    /\ ncalls < MaxCalls
    /\ ncalls' = ncalls + 1
    /\ cell' = [cell EXCEPT ![c] = x]
    /\ pc' = [pc EXCEPT ![c] = "raw"]
    /\ UNCHANGED <<cellVars, try_lock, in_interrupt, in_exception, localVars,
                   guards, depth, fatal, queue, dataVars, wrapVars>>

\* A store of v through the reference returned by shatter().
RawWrite(c, v) ==
    /\ pc[c] = "raw"
    /\ val' = [val EXCEPT ![cell[c]] = v]
    /\ cell' = [cell EXCEPT ![c] = NoCell]
    /\ pc' = [pc EXCEPT ![c] = "idle"]
    /\ UNCHANGED <<cellVars, try_lock, in_interrupt, in_exception, localVars,
                   guards, depth, fatal, histVars, tmp, used, wrapVars>>

\* mutant: shatter() hands out a copy of the payload
RawRead_Copy(c) ==
    /\ pc[c] = "raw"
    /\ tmp' = [tmp EXCEPT ![c] = 0]
    /\ pc' = [pc EXCEPT ![c] = "raw_done"]
    /\ UNCHANGED <<cellVars, callVars, localVars, guards, depth, fatal,
                   histVars, val, used, wrapVars>>

\* A load through the reference returned by shatter().
RawRead(c) ==
    /\ pc[c] = "raw"
    /\ tmp' = [tmp EXCEPT ![c] = val[cell[c]]]
    /\ pc' = [pc EXCEPT ![c] = "raw_done"]
    /\ UNCHANGED <<cellVars, callVars, localVars, guards, depth, fatal,
                   histVars, val, used, wrapVars>>

\* The caller is done with the value it loaded.
RawDone(c) ==
    /\ pc[c] = "raw_done"
    /\ tmp' = [tmp EXCEPT ![c] = 0]
    /\ cell' = [cell EXCEPT ![c] = NoCell]
    /\ pc' = [pc EXCEPT ![c] = "idle"]
    /\ UNCHANGED <<cellVars, try_lock, in_interrupt, in_exception, localVars,
                   guards, depth, fatal, histVars, val, used, wrapVars>>

\* The lock operations, critical sections on the payload and raw accesses
\* through shatter().
NextRaw ==
    \/ \E c \in Cores, try \in BOOLEAN, irq \in BOOLEAN, exc \in BOOLEAN :
          Call(c, WrapCell, try, irq, exc)
    \/ \E c \in Cores : Step(c)
    \/ \E c \in Cores, x \in Cells : GuardRead(c, x)
    \/ \E c \in Cores : GuardWrite(c)
    \/ \E c \in Cores, x \in Cells : DropOwner(c, x)
    \/ \E c \in Cores : Shatter(c, WrapCell)
    \/ \E c \in Cores, v \in RawValues : RawWrite(c, v)
    \/ \E c \in Cores : RawRead(c)
    \/ \E c \in Cores : RawDone(c)

\* One cell of either kind; the other cell is left alone.
InitRaw == Init /\ \A x \in Cells \ {WrapCell} : ~disables_interrupts[x]

SpecRaw == InitRaw /\ [][NextRaw]_vars

\* No request that aborted with "Deadlock detected" has had its ticket
\* released: release of its cell is not the value after its ticket.
AbortedNeverReleased ==
    \A c \in Cores : (pc[c] = "panicked" /\ fatal[c] = "deadlock") =>
        release[cell[c]] # (lticket[c] + 1) % Modulus

\* C19: a step that changes release of a cell is the release increment of
\* the drop of a guard of that cell, it adds exactly one modulo 2^w and
\* ends that guard; no step of lock(), try_lock(), an aborting call or a
\* shatter() access changes release, and the ticket of a request that
\* aborted with "Deadlock detected" is never released.
C19_ReleaseOnlyByDrop ==
    [][/\ \A x \in Cells : release'[x] # release[x] =>
             /\ release'[x] = (release[x] + 1) % Modulus
             /\ \E c \in Cores :
                   /\ pc[c] = "drop_release"
                   /\ cell[c] = x
                   /\ x \in guards[c]
                   /\ guards'[c] = guards[c] \ {x}
                   /\ pc'[c] = "drop_exit"
       /\ AbortedNeverReleased
       /\ AbortedNeverReleased']_vars

\* A request has aborted with "Deadlock detected", the guard ahead of it
\* has been dropped, and release stays at the aborted ticket.
C19_Witness ==
    \E c \in Cores :
        /\ pc[c] = "panicked"
        /\ fatal[c] = "deadlock"
        /\ lticket[c] = 1
        /\ release[cell[c]] = lticket[c]
        /\ \A d \in Cores : cell[c] \notin guards[d]
        /\ \A d \in Cores \ {c} : pc[d] = "idle"

\* C20: shatter() can be called by a core between operations in every lock
\* state and the access through it always completes; no step of it changes
\* ticket, release, owner, a nesting depth, a guard or the queue; a store
\* through it puts its value in the payload that a guard reads, and a load
\* through it, like a read through a guard, yields the stored payload.
C20_ShatterBypasses ==
    [][\A c \in Cores :
          /\ (pc[c] = "idle" /\ ncalls < MaxCalls) => ENABLED Shatter(c, WrapCell)
          /\ pc[c] = "raw" => ENABLED RawRead(c)
          /\ (pc[c] = "raw" \/ pc'[c] = "raw") /\ pc'[c] # pc[c] =>
                /\ ticket' = ticket
                /\ release' = release
                /\ owner' = owner
                /\ depth' = depth
                /\ guards' = guards
                /\ queue' = queue
                /\ fatal' = fatal
                /\ pc'[c] \in {"raw", "raw_done", "idle"}
                /\ pc'[c] = "raw" => val' = val
                /\ pc'[c] = "raw_done" => val' = val /\ tmp'[c] = val[cell[c]]
                /\ pc'[c] = "idle" =>
                      /\ val'[cell[c]] \in RawValues
                      /\ \A y \in Cells \ {cell[c]} : val'[y] = val[y]
          /\ (pc[c] = "idle" /\ pc'[c] = "cs_write") =>
                tmp'[c] = val[cell'[c]]]_vars

\* A value stored through shatter() while core d held the cell has been
\* read by d through its guard and by another core through shatter().
C20_Witness ==
    \E c \in Cores, d \in Cores :
        /\ c # d
        /\ pc[d] = "cs_write"
        /\ tmp[d] \in RawValues
        /\ ticket[cell[d]] = 1
        /\ ncalls = 3
        /\ pc[c] = "raw_done"
        /\ cell[c] = cell[d]
        /\ tmp[c] = tmp[d]

====
